---- MODULE Spec2Model ----
(***************************************************************************)
(* Model of the cost-aware scheduler of src/scheduler.py: the priority     *)
(* heap, the budget accountant, the token refiller and the scheduler core. *)
(*                                                                         *)
(* Units.  Time is in seconds.  API tokens are kept in sixtieths of a      *)
(* token (TokenScale), so that the proportional refill                     *)
(* (api_calls_per_minute / 60.0) * elapsed is exact for whole seconds.     *)
(* Priority scores are kept in twentieths (ScoreScale), so that            *)
(* priority*10.0 + (compute + api*0.5)*0.1 is exact.  compute_units is a   *)
(* float in the source; the values used here are whole numbers.            *)
(***************************************************************************)
EXTENDS Integers, Sequences, FiniteSets, TLC

(* ---- bounds of the model ---- *)
MaxSched == 2
MaxTicks == 1
TickSeconds == 12
MaxDeferred == 2

(* ---- program constants ---- *)
CRITICAL == 1
HIGH == 2
NORMAL == 3
LOW == 4
ScanDepth == 5
TokenScale == 60
ScoreScale == 20
MsPerSecond == 1000

VARIABLES ctor, budget, queue, lock, api_tokens, last_refill, current_usage,
          metrics, refill_task, now, pc, cur, ret,
          sched_pc, sched_task, sched_reject, sched_ret,
          nsched, unrecorded, refillers, stop_ret, all_pc, api_log

vars == <<ctor, budget, queue, lock, api_tokens, last_refill, current_usage,
          metrics, refill_task, now, pc, cur, ret,
          sched_pc, sched_task, sched_reject, sched_ret,
          nsched, unrecorded, refillers, stop_ret, all_pc, api_log>>

(* the concurrent callers of execute_next; the lock is Free or held by one of *)
(* them, by the schedule call or by the refiller                             *)
Procs == {"exec1", "exec2"}
Free == "free"
SchedId == "schedule"
RefillId == "refiller"

(* ---- data ---- *)
ResourceBudget(a, c, m) ==
  [api_calls_per_minute |-> a, compute_units |-> c, memory_mb |-> m]

TaskCost(a, c, m) == [api_calls |-> a, compute_units |-> c, memory_mb |-> m]

calculate_score(priority, cost, age_seconds) ==
  (priority * 10 * ScoreScale)
    + (2 * cost.compute_units + cost.api_calls)
    - ((age_seconds * ScoreScale) \div 120)

(* seq stands for the identity of the task object (its func, args and      *)
(* kwargs): the ordinal of the schedule call that created it               *)
ScheduledTask(priority, cost, t, n) ==
  [score |-> calculate_score(priority, cost, 0),
   priority |-> priority,
   cost |-> cost,
   task_id |-> t * MsPerSecond,
   created_at |-> t,
   seq |-> n]

NoTask ==
  [score |-> 0, priority |-> 0, cost |-> TaskCost(0, 0, 0),
   task_id |-> -1, created_at |-> -1, seq |-> 0]

SchedulerMetrics ==
  [tasks_queued |-> 0, tasks_executed |-> 0, tasks_rejected |-> 0,
   tasks_deferred |-> 0,
   total_cost_spent |-> [api_calls |-> 0, compute_units |-> 0, memory_mb |-> 0]]

record_execution_uncounted(m, cost) ==
  [m EXCEPT !.total_cost_spent.api_calls = @ + cost.api_calls,
            !.total_cost_spent.compute_units = @ + cost.compute_units,
            !.total_cost_spent.memory_mb = @ + cost.memory_mb]

record_execution(m, cost) ==
  [m EXCEPT !.tasks_executed = @ + 1,
            !.total_cost_spent.api_calls = @ + cost.api_calls,
            !.total_cost_spent.compute_units = @ + cost.compute_units,
            !.total_cost_spent.memory_mb = @ + cost.memory_mb]

record_rejection_as_queued(m) ==
  [m EXCEPT !.tasks_rejected = @ + 1, !.tasks_queued = @ + 1]

record_rejection(m) == [m EXCEPT !.tasks_rejected = @ + 1]

record_deferral(m) == [m EXCEPT !.tasks_deferred = @ + 1]

(* ---- heapq on a list of ScheduledTask, ordered by the score alone ---- *)
Less_reversed(a, b) == a.score > b.score

Less(a, b) == a.score < b.score

RECURSIVE siftdown_loop_past_equal(_, _, _, _)
siftdown_loop_past_equal(heap, startpos, pos, newitem) ==
  IF pos > startpos
  THEN LET parentpos == (pos - 1) \div 2
           parent == heap[parentpos + 1]
       IN IF ~Less(parent, newitem)
          THEN siftdown_loop_past_equal([heap EXCEPT ![pos + 1] = parent],
                                        startpos, parentpos, newitem)
          ELSE [heap EXCEPT ![pos + 1] = newitem]
  ELSE [heap EXCEPT ![pos + 1] = newitem]

RECURSIVE siftdown_loop(_, _, _, _)
siftdown_loop(heap, startpos, pos, newitem) ==
  IF pos > startpos
  THEN LET parentpos == (pos - 1) \div 2
           parent == heap[parentpos + 1]
       IN IF Less(newitem, parent)
          THEN siftdown_loop([heap EXCEPT ![pos + 1] = parent],
                             startpos, parentpos, newitem)
          ELSE [heap EXCEPT ![pos + 1] = newitem]
  ELSE [heap EXCEPT ![pos + 1] = newitem]

siftdown(heap, startpos, pos) ==
  siftdown_loop(heap, startpos, pos, heap[pos + 1])

RECURSIVE siftup_loop(_, _, _)
siftup_loop(heap, pos, endpos) ==
  LET childpos == 2 * pos + 1
  IN IF childpos < endpos
     THEN LET rightpos == childpos + 1
              c == IF rightpos < endpos
                      /\ ~Less(heap[childpos + 1], heap[rightpos + 1])
                   THEN rightpos ELSE childpos
          IN siftup_loop([heap EXCEPT ![pos + 1] = heap[c + 1]], c, endpos)
     ELSE <<heap, pos>>

siftup(heap, pos) ==
  LET newitem == heap[pos + 1]
      r == siftup_loop(heap, pos, Len(heap))
  IN siftdown([r[1] EXCEPT ![r[2] + 1] = newitem], pos, r[2])

heappush(heap, item) ==
  siftdown(Append(heap, item), 0, Len(heap))

heappop_item(heap) == heap[1]

heappop_rest(heap) ==
  LET lastelt == heap[Len(heap)]
      rest == SubSeq(heap, 1, Len(heap) - 1)
  IN IF rest # <<>> THEN siftup([rest EXCEPT ![1] = lastelt], 0) ELSE rest

RECURSIVE push_all(_, _)
push_all(heap, tasks) ==
  IF tasks = <<>> THEN heap
  ELSE push_all(heappush(heap, Head(tasks)), Tail(tasks))

(* ---- budget accountant ---- *)
can_afford_ignoring_tokens(tokens, usage, b, cost) ==
  /\ usage.compute_units + cost.compute_units <= b.compute_units
  /\ usage.memory_mb + cost.memory_mb <= b.memory_mb

can_afford_ignoring_memory(tokens, usage, b, cost) ==
  /\ tokens >= cost.api_calls * TokenScale
  /\ usage.compute_units + cost.compute_units <= b.compute_units

can_afford(tokens, usage, b, cost) ==
  /\ tokens >= cost.api_calls * TokenScale
  /\ usage.compute_units + cost.compute_units <= b.compute_units
  /\ usage.memory_mb + cost.memory_mb <= b.memory_mb

(* ---- execute_next: the scan of the (up to ScanDepth) lowest-score tasks ---- *)
RECURSIVE scan_whole_queue(_, _, _, _, _, _)
scan_whole_queue(n, q, skipped, tokens, usage, b) ==
  IF q = <<>>
  THEN [queue |-> q, affordable_task |-> NoTask, skipped_tasks |-> skipped]
  ELSE LET candidate == heappop_item(q)
           rest == heappop_rest(q)
       IN IF can_afford(tokens, usage, b, candidate.cost)
          THEN [queue |-> rest, affordable_task |-> candidate,
                skipped_tasks |-> skipped]
          ELSE scan_whole_queue(n, rest, Append(skipped, candidate),
                                tokens, usage, b)

RECURSIVE scan(_, _, _, _, _, _)
scan(n, q, skipped, tokens, usage, b) ==
  IF n = 0 \/ q = <<>>
  THEN [queue |-> q, affordable_task |-> NoTask, skipped_tasks |-> skipped]
  ELSE LET candidate == heappop_item(q)
           rest == heappop_rest(q)
       IN IF can_afford(tokens, usage, b, candidate.cost)
          THEN [queue |-> rest, affordable_task |-> candidate,
                skipped_tasks |-> skipped]
          ELSE scan(n - 1, rest, Append(skipped, candidate), tokens, usage, b)

Min(a, b) == IF a <= b THEN a ELSE b

(* ---- inputs ---- *)
TaskKinds ==
  {[priority |-> HIGH, cost |-> TaskCost(3, 1, 10)],
   [priority |-> LOW, cost |-> TaskCost(0, 5, 30)]}
BudgetArgs == {ResourceBudget(5, 10, 50)}
ReturnValues == {"value", "None"}

(* ---- construction, with the budget passed explicitly ---- *)
InitWith(b) ==
  /\ ctor = [budget |-> b, raised |-> "-"]
  /\ budget = b
  /\ queue = <<>>
  /\ lock = Free
  /\ current_usage = [api_calls |-> 0, compute_units |-> 0, memory_mb |-> 0]
  /\ api_tokens = b.api_calls_per_minute * TokenScale
  /\ now = 0
  /\ last_refill = 0
  /\ metrics = SchedulerMetrics
  /\ refill_task = "None"
  /\ pc = [p \in Procs |-> "idle"]
  /\ cur = [p \in Procs |-> NoTask]
  /\ ret = [p \in Procs |-> "-"]
  /\ sched_pc = "idle"
  /\ sched_task = NoTask
  /\ sched_reject = FALSE
  /\ sched_ret = "-"
  /\ nsched = 0
  /\ unrecorded = 0
  /\ refillers = 0
  /\ stop_ret = "-"
  /\ all_pc = [p \in Procs |-> "off"]
  /\ api_log = [on |-> FALSE, calls |-> <<>>]

Init == \E b \in BudgetArgs : InitWith(b)

(* ---- construction with the budget left out: CostAwareScheduler()        *)
(* `self.budget = budget or ResourceBudget()` takes the default, then       *)
(* `float(budget.api_calls_per_minute)` reads the argument, which is None:  *)
(* AttributeError leaves __init__ before _api_tokens, _last_refill, metrics *)
(* and _refill_task are set, and no scheduler is returned.                  *)
DefaultApiCallsPerMinute == 60
DefaultComputeUnits == 100
DefaultMemoryMb == 512
DefaultBudget ==
  ResourceBudget(DefaultApiCallsPerMinute, DefaultComputeUnits, DefaultMemoryMb)
NoBudget == ResourceBudget(0, 0, 0)

InitWithout ==
  /\ ctor = [budget |-> NoBudget, raised |-> "AttributeError"]
  /\ budget = DefaultBudget
  /\ queue = <<>>
  /\ lock = Free
  /\ current_usage = [api_calls |-> 0, compute_units |-> 0, memory_mb |-> 0]
  /\ api_tokens = 0
  /\ now = 0
  /\ last_refill = 0
  /\ metrics = SchedulerMetrics
  /\ refill_task = "None"
  /\ pc = [p \in Procs |-> "idle"]
  /\ cur = [p \in Procs |-> NoTask]
  /\ ret = [p \in Procs |-> "-"]
  /\ sched_pc = "idle"
  /\ sched_task = NoTask
  /\ sched_reject = FALSE
  /\ sched_ret = "-"
  /\ nsched = 0
  /\ unrecorded = 0
  /\ refillers = 0
  /\ stop_ret = "-"
  /\ all_pc = [p \in Procs |-> "off"]
  /\ api_log = [on |-> FALSE, calls |-> <<>>]

CtorInit == Init \/ InitWithout

(* ---- the clock: time passes in steps of TickSeconds; a sleeping refiller *)
(* has slept its second once time has passed                                *)
Tick ==
  /\ now < MaxTicks * TickSeconds
  /\ now' = now + TickSeconds
  /\ refill_task' = IF refill_task = "sleep" THEN "wake" ELSE refill_task
  /\ UNCHANGED <<ctor, budget, queue, lock, api_tokens, last_refill, current_usage,
                 metrics, pc, cur, ret, sched_pc, sched_task, sched_reject,
                 sched_ret, nsched, unrecorded, refillers, stop_ret,
                 all_pc, api_log>>

(* ---- start / stop / the refiller ----                                    *)
(* refill_task is where the coroutine behind self._refill_task is: "None"   *)
(* before start(), "sleep" in asyncio.sleep, "wake" when the sleep is over  *)
(* and it waits for the lock, "cs" inside the locked block, "cancelled" or  *)
(* "failed" once it has ended.  refillers counts the refiller coroutines    *)
(* that are alive; stop_ret is how the last stop() ended.                   *)
(* start() that would create a refiller whether or not there is one *)
StartUnguarded ==
  /\ refill_task # "cs"
  /\ refill_task' = "sleep"
  /\ refillers' = refillers + 1
  /\ UNCHANGED <<ctor, budget, queue, lock, api_tokens, last_refill, current_usage,
                 metrics, now, pc, cur, ret, sched_pc, sched_task,
                 sched_reject, sched_ret, nsched, unrecorded, stop_ret,
                 all_pc, api_log>>

(* start(): creates the refiller only while self._refill_task is None,      *)
(* which it is only before the first start(); any other call does nothing   *)
Start ==
  /\ IF refill_task = "None"
     THEN /\ refill_task' = "sleep"
          /\ refillers' = refillers + 1
     ELSE UNCHANGED <<refill_task, refillers>>
  /\ UNCHANGED <<ctor, budget, queue, lock, api_tokens, last_refill, current_usage,
                 metrics, now, pc, cur, ret, sched_pc, sched_task,
                 sched_reject, sched_ret, nsched, unrecorded, stop_ret,
                 all_pc, api_log>>

(* stop() that would let the CancelledError of the awaited task through *)
StopUncaught ==
  /\ refill_task \in {"sleep", "wake", "cancelled", "failed"}
  /\ refill_task' = IF refill_task = "failed" THEN "failed" ELSE "cancelled"
  /\ refillers' = IF refill_task \in {"sleep", "wake"}
                  THEN refillers - 1 ELSE refillers
  /\ stop_ret' = IF refill_task = "failed" THEN "Exception" ELSE "CancelledError"
  /\ UNCHANGED <<ctor, budget, queue, lock, api_tokens, last_refill, current_usage,
                 metrics, now, pc, cur, ret, sched_pc, sched_task,
                 sched_reject, sched_ret, nsched, unrecorded, all_pc,
                 api_log>>

(* stop(): cancel() ends a refiller suspended in its sleep or in the lock's *)
(* acquire (the lock is not taken); `await self._refill_task` then raises   *)
(* CancelledError, which is caught.  On a task that already ended, cancel() *)
(* does nothing and the await raises what the task ended with.              *)
Stop ==
  /\ refill_task \in {"sleep", "wake", "cancelled", "failed"}
  /\ refill_task' = IF refill_task = "failed" THEN "failed" ELSE "cancelled"
  /\ refillers' = IF refill_task \in {"sleep", "wake"}
                  THEN refillers - 1 ELSE refillers
  /\ stop_ret' = IF refill_task = "failed" THEN "Exception" ELSE "None"
  /\ UNCHANGED <<ctor, budget, queue, lock, api_tokens, last_refill, current_usage,
                 metrics, now, pc, cur, ret, sched_pc, sched_task,
                 sched_reject, sched_ret, nsched, unrecorded, all_pc,
                 api_log>>

RefillEnter ==
  /\ refill_task = "wake"
  /\ lock = Free
  /\ lock' = RefillId
  /\ refill_task' = "cs"
  /\ UNCHANGED <<ctor, budget, queue, api_tokens, last_refill, current_usage,
                 metrics, now, pc, cur, ret, sched_pc, sched_task,
                 sched_reject, sched_ret, nsched, unrecorded,
                 refillers, stop_ret, all_pc, api_log>>

refill_tokens_uncapped(tokens, b, elapsed) ==
  tokens + b.api_calls_per_minute * elapsed

(* a refill that would credit the elapsed time to an empty bucket *)
refill_tokens_from_empty(tokens, b, elapsed) ==
  Min(b.api_calls_per_minute * elapsed, b.api_calls_per_minute * TokenScale)

refill_tokens(tokens, b, elapsed) ==
  Min(tokens + b.api_calls_per_minute * elapsed,
      b.api_calls_per_minute * TokenScale)

RefillBody ==
  /\ refill_task = "cs"
  /\ lock = RefillId
  /\ api_tokens' = refill_tokens(api_tokens, budget, now - last_refill)
  /\ last_refill' = now
  /\ lock' = Free
  /\ refill_task' = "sleep"
  /\ UNCHANGED <<ctor, budget, queue, current_usage, metrics, now, pc, cur, ret,
                 sched_pc, sched_task, sched_reject, sched_ret, nsched,
                 unrecorded, refillers, stop_ret, all_pc, api_log>>

(* ---- schedule ----                                                       *)
(* Each `async with self._lock` block is two steps: taking the lock, then   *)
(* the block's body together with the release (no body awaits anything).    *)
ScheduleEnter(priority, cost, reject_if_no_budget) ==
  /\ sched_pc = "idle"
  /\ lock = Free
  /\ sched_task' = ScheduledTask(priority, cost, now, nsched + 1)
  /\ sched_reject' = reject_if_no_budget
  /\ sched_ret' = "-"
  /\ sched_pc' = "cs"
  /\ lock' = SchedId
  /\ nsched' = nsched + 1
  /\ UNCHANGED <<ctor, budget, queue, api_tokens, last_refill, current_usage,
                 metrics, refill_task, now, pc, cur, ret, unrecorded,
                 refillers, stop_ret, all_pc, api_log>>

admit_ignoring_flag(reject_if_no_budget, tokens, usage, b, cost) ==
  can_afford(tokens, usage, b, cost)

admit(reject_if_no_budget, tokens, usage, b, cost) ==
  ~(reject_if_no_budget /\ ~can_afford(tokens, usage, b, cost))

ScheduleBody ==
  /\ sched_pc = "cs"
  /\ lock = SchedId
  /\ IF admit(sched_reject, api_tokens, current_usage, budget, sched_task.cost)
     THEN /\ queue' = heappush(queue, sched_task)
          /\ metrics' = [metrics EXCEPT !.tasks_queued = @ + 1]
          /\ sched_ret' = "task_id"
     ELSE /\ metrics' = record_rejection(metrics)
          /\ sched_ret' = "BudgetExhaustedError"
          /\ UNCHANGED queue
  /\ lock' = Free
  /\ sched_pc' = "idle"
  /\ sched_task' = NoTask
  /\ sched_reject' = FALSE
  /\ UNCHANGED <<ctor, budget, api_tokens, last_refill, current_usage, refill_task,
                 now, pc, cur, ret, nsched, unrecorded,
                 refillers, stop_ret, all_pc, api_log>>

(* ---- execute_all ----                                                    *)
(* all_pc[p] is "running" while caller p is inside execute_all.  Its loop   *)
(* looks at what execute_next gave back as soon as it returns: a result     *)
(* that is None ends the loop, an exception leaves execute_all, any other   *)
(* result goes on (after the sleep) to the next execute_next.               *)
after_return(a, p, result) ==
  IF a[p] # "running" THEN a
  ELSE IF result = "None" THEN [a EXCEPT ![p] = "returned"]
  ELSE IF result \in {"Exception", "CancelledError"}
       THEN [a EXCEPT ![p] = "raised"]
  ELSE a

(* ---- the record of dispatches ----                                       *)
(* api_log, when switched on, keeps for each dispatch the time at which     *)
(* line 300 took the task's api_calls from the tokens and how many it took. *)
logged(log, t, api_calls) ==
  IF log.on
  THEN [log EXCEPT !.calls = Append(@, [at |-> t, api_calls |-> api_calls])]
  ELSE log

(* ---- execute_next ---- *)
ExecuteNextEnter(p) ==
  /\ pc[p] = "idle"
  /\ lock = Free
  /\ metrics.tasks_deferred < MaxDeferred
  /\ lock' = p
  /\ pc' = [pc EXCEPT ![p] = "select"]
  /\ ret' = [ret EXCEPT ![p] = "-"]
  /\ UNCHANGED <<ctor, budget, queue, api_tokens, last_refill, current_usage,
                 metrics, refill_task, now, cur, sched_pc, sched_task,
                 sched_reject, sched_ret, nsched, unrecorded,
                 refillers, stop_ret, all_pc, api_log>>

reserve(usage, cost) ==
  [usage EXCEPT !.compute_units = @ + cost.compute_units,
                !.memory_mb = @ + cost.memory_mb]

release(usage, cost) ==
  [usage EXCEPT !.compute_units = @ - cost.compute_units,
                !.memory_mb = @ - cost.memory_mb]

(* execute_next that would keep the lock while it awaits the callable *)
ExecuteNextSelectHolding(p) ==
  /\ pc[p] = "select"
  /\ lock = p
  /\ IF queue = <<>>
     THEN /\ pc' = [pc EXCEPT ![p] = "idle"]
          /\ ret' = [ret EXCEPT ![p] = "None"]
          /\ lock' = Free
          /\ UNCHANGED <<queue, metrics, api_tokens, current_usage, cur>>
     ELSE LET s == scan(Min(ScanDepth, Len(queue)), queue, <<>>,
                        api_tokens, current_usage, budget)
          IN /\ queue' = push_all(s.queue, s.skipped_tasks)
             /\ metrics' = [metrics EXCEPT
                              !.tasks_deferred = @ + Len(s.skipped_tasks)]
             /\ IF s.affordable_task = NoTask
                THEN /\ pc' = [pc EXCEPT ![p] = "idle"]
                     /\ ret' = [ret EXCEPT ![p] = "None"]
                     /\ lock' = Free
                     /\ UNCHANGED <<api_tokens, current_usage, cur>>
                ELSE /\ api_tokens' = api_tokens
                          - s.affordable_task.cost.api_calls * TokenScale
                     /\ current_usage' =
                          reserve(current_usage, s.affordable_task.cost)
                     /\ cur' = [cur EXCEPT ![p] = s.affordable_task]
                     /\ pc' = [pc EXCEPT ![p] = "running"]
                     /\ lock' = p
                     /\ UNCHANGED ret
  /\ all_pc' = IF pc'[p] = "idle"
               THEN after_return(all_pc, p, "None") ELSE all_pc
  /\ api_log' = IF pc'[p] = "running"
                THEN logged(api_log, now, cur'[p].cost.api_calls) ELSE api_log
  /\ UNCHANGED <<ctor, budget, last_refill, refill_task, now, sched_pc, sched_task,
                 sched_reject, sched_ret, nsched, unrecorded,
                 refillers, stop_ret>>

ExecuteNextSelect(p) ==
  /\ pc[p] = "select"
  /\ lock = p
  /\ IF queue = <<>>
     THEN /\ pc' = [pc EXCEPT ![p] = "idle"]
          /\ ret' = [ret EXCEPT ![p] = "None"]
          /\ UNCHANGED <<queue, metrics, api_tokens, current_usage, cur>>
     ELSE LET s == scan(Min(ScanDepth, Len(queue)), queue, <<>>,
                        api_tokens, current_usage, budget)
          IN /\ queue' = push_all(s.queue, s.skipped_tasks)
             /\ metrics' = [metrics EXCEPT
                              !.tasks_deferred = @ + Len(s.skipped_tasks)]
             /\ IF s.affordable_task = NoTask
                THEN /\ pc' = [pc EXCEPT ![p] = "idle"]
                     /\ ret' = [ret EXCEPT ![p] = "None"]
                     /\ UNCHANGED <<api_tokens, current_usage, cur>>
                ELSE /\ api_tokens' = api_tokens
                          - s.affordable_task.cost.api_calls * TokenScale
                     /\ current_usage' =
                          reserve(current_usage, s.affordable_task.cost)
                     /\ cur' = [cur EXCEPT ![p] = s.affordable_task]
                     /\ pc' = [pc EXCEPT ![p] = "running"]
                     /\ UNCHANGED ret
  /\ lock' = Free
  /\ all_pc' = IF pc'[p] = "idle"
               THEN after_return(all_pc, p, "None") ELSE all_pc
  /\ api_log' = IF pc'[p] = "running"
                THEN logged(api_log, now, cur'[p].cost.api_calls) ELSE api_log
  /\ UNCHANGED <<ctor, budget, last_refill, refill_task, now, sched_pc, sched_task,
                 sched_reject, sched_ret, nsched, unrecorded,
                 refillers, stop_ret>>

TaskReturn(p) ==
  /\ pc[p] = "running"
  /\ lock = Free
  /\ lock' = p
  /\ pc' = [pc EXCEPT ![p] = "completed"]
  /\ UNCHANGED <<ctor, budget, queue, api_tokens, last_refill, current_usage,
                 metrics, refill_task, now, cur, ret, sched_pc, sched_task,
                 sched_reject, sched_ret, nsched, unrecorded,
                 refillers, stop_ret, all_pc, api_log>>

ReleaseSuccess(p) ==
  /\ pc[p] = "completed"
  /\ lock = p
  /\ metrics' = record_execution(metrics, cur[p].cost)
  /\ current_usage' = release(current_usage, cur[p].cost)
  /\ lock' = Free
  /\ pc' = [pc EXCEPT ![p] = "idle"]
  /\ cur' = [cur EXCEPT ![p] = NoTask]
  /\ \E v \in ReturnValues : ret' = [ret EXCEPT ![p] = v]
  /\ all_pc' = after_return(all_pc, p, ret'[p])
  /\ UNCHANGED <<ctor, budget, queue, api_tokens, last_refill, refill_task, now,
                 sched_pc, sched_task, sched_reject, sched_ret, nsched,
                 unrecorded, refillers, stop_ret, api_log>>

TaskRaise(p) ==
  /\ pc[p] = "running"
  /\ lock = Free
  /\ lock' = p
  /\ pc' = [pc EXCEPT ![p] = "failed"]
  /\ UNCHANGED <<ctor, budget, queue, api_tokens, last_refill, current_usage,
                 metrics, refill_task, now, cur, ret, sched_pc, sched_task,
                 sched_reject, sched_ret, nsched, unrecorded,
                 refillers, stop_ret, all_pc, api_log>>

ReleaseFailureRefund(p) ==
  /\ pc[p] = "failed"
  /\ lock = p
  /\ current_usage' = release(current_usage, cur[p].cost)
  /\ api_tokens' = api_tokens + cur[p].cost.api_calls * TokenScale
  /\ lock' = Free
  /\ pc' = [pc EXCEPT ![p] = "idle"]
  /\ cur' = [cur EXCEPT ![p] = NoTask]
  /\ ret' = [ret EXCEPT ![p] = "Exception"]
  /\ unrecorded' = unrecorded + 1
  /\ all_pc' = after_return(all_pc, p, ret'[p])
  /\ UNCHANGED <<ctor, budget, queue, last_refill, metrics, refill_task, now,
                 sched_pc, sched_task, sched_reject, sched_ret, nsched,
                 refillers, stop_ret, api_log>>

ReleaseFailure(p) ==
  /\ pc[p] = "failed"
  /\ lock = p
  /\ current_usage' = release(current_usage, cur[p].cost)
  /\ lock' = Free
  /\ pc' = [pc EXCEPT ![p] = "idle"]
  /\ cur' = [cur EXCEPT ![p] = NoTask]
  /\ ret' = [ret EXCEPT ![p] = "Exception"]
  /\ unrecorded' = unrecorded + 1
  /\ all_pc' = after_return(all_pc, p, ret'[p])
  /\ UNCHANGED <<ctor, budget, queue, api_tokens, last_refill, metrics,
                 refill_task, now, sched_pc, sched_task, sched_reject,
                 sched_ret, nsched, refillers, stop_ret, api_log>>

(* asyncio.CancelledError thrown into the awaited callable: a BaseException, *)
(* which `except Exception` does not catch.                                  *)
TaskCancel(p) ==
  /\ pc[p] = "running"
  /\ pc' = [pc EXCEPT ![p] = "idle"]
  /\ cur' = [cur EXCEPT ![p] = NoTask]
  /\ ret' = [ret EXCEPT ![p] = "CancelledError"]
  /\ unrecorded' = unrecorded + 1
  /\ all_pc' = after_return(all_pc, p, ret'[p])
  /\ UNCHANGED <<ctor, budget, queue, lock, api_tokens, last_refill, current_usage,
                 metrics, refill_task, now, sched_pc, sched_task,
                 sched_reject, sched_ret, nsched, refillers, stop_ret,
                 api_log>>

Schedule ==
  /\ nsched < MaxSched
  /\ \E k \in TaskKinds, r \in BOOLEAN :
        ScheduleEnter(k.priority, k.cost, r)

Next ==
  \/ Tick
  \/ Start
  \/ Stop
  \/ RefillEnter
  \/ RefillBody
  \/ Schedule
  \/ ScheduleBody
  \/ \E p \in Procs : ExecuteNextEnter(p)
  \/ \E p \in Procs : ExecuteNextSelect(p)
  \/ \E p \in Procs : TaskReturn(p)
  \/ \E p \in Procs : ReleaseSuccess(p)
  \/ \E p \in Procs : TaskRaise(p)
  \/ \E p \in Procs : ReleaseFailure(p)
  \/ \E p \in Procs : TaskCancel(p)

Spec == Init /\ [][Next]_vars

(* ---- an error inside one iteration of the refiller ----                  *)
(* The statements of _refill_tokens' locked block (lines 191-200) are in no *)
(* try: an exception raised there leaves the `async with` (releasing the    *)
(* lock), leaves `while True`, and ends the coroutine; the task keeps the   *)
(* exception.  Raised at line 195 it comes before any assignment.           *)
RefillFault ==
  /\ refill_task = "cs"
  /\ lock = RefillId
  /\ lock' = Free
  /\ refill_task' = "failed"
  /\ refillers' = refillers - 1
  /\ UNCHANGED <<ctor, budget, queue, api_tokens, last_refill, current_usage,
                 metrics, now, pc, cur, ret, sched_pc, sched_task,
                 sched_reject, sched_ret, nsched, unrecorded, stop_ret,
                 all_pc, api_log>>

FaultNext == Next \/ RefillFault

FaultSpec == Init /\ [][FaultNext]_vars

(* the operations exist only on a scheduler that was constructed *)
CtorNext == ctor.raised = "-" /\ Next

CtorSpec == CtorInit /\ [][CtorNext]_vars

(* ---- scenario S2 (demo_rejection_policy): three submissions of one task ---- *)
S2Calls == 3
S2Priority == HIGH
S2Cost == TaskCost(3, 1, 10)

S2Schedule ==
  /\ nsched < S2Calls
  /\ ScheduleEnter(S2Priority, S2Cost, TRUE)

S2Next ==
  \/ Tick
  \/ Start
  \/ Stop
  \/ RefillEnter
  \/ RefillBody
  \/ S2Schedule
  \/ ScheduleBody
  \/ \E p \in Procs : ExecuteNextEnter(p)
  \/ \E p \in Procs : ExecuteNextSelect(p)
  \/ \E p \in Procs : TaskReturn(p)
  \/ \E p \in Procs : ReleaseSuccess(p)
  \/ \E p \in Procs : TaskRaise(p)
  \/ \E p \in Procs : ReleaseFailure(p)
  \/ \E p \in Procs : TaskCancel(p)

S2Spec == Init /\ [][S2Next]_vars

(* ---- a fixed queue, no arrivals: ScanDepth + 1 tasks queued at time 0 ---- *)
StarveKinds ==
  {[priority |-> HIGH, cost |-> TaskCost(0, 11, 10)],
   [priority |-> LOW, cost |-> TaskCost(0, 5, 30)]}

StarveLen == ScanDepth + 1

StarveInit ==
  \E b \in BudgetArgs :
    \E ks \in [1..StarveLen -> StarveKinds] :
      /\ ctor = [budget |-> b, raised |-> "-"]
      /\ budget = b
      /\ queue = push_all(<<>>,
                   [i \in 1..StarveLen |->
                      ScheduledTask(ks[i].priority, ks[i].cost, 0, i)])
      /\ lock = Free
      /\ current_usage = [api_calls |-> 0, compute_units |-> 0, memory_mb |-> 0]
      /\ api_tokens = b.api_calls_per_minute * TokenScale
      /\ now = 0
      /\ last_refill = 0
      /\ metrics = [SchedulerMetrics EXCEPT !.tasks_queued = StarveLen]
      /\ refill_task = "None"
      /\ pc = [p \in Procs |-> "idle"]
      /\ cur = [p \in Procs |-> NoTask]
      /\ ret = [p \in Procs |-> "-"]
      /\ sched_pc = "idle"
      /\ sched_task = NoTask
      /\ sched_reject = FALSE
      /\ sched_ret = "task_id"
      /\ nsched = StarveLen
      /\ unrecorded = 0
      /\ refillers = 0
      /\ stop_ret = "-"
      /\ all_pc = [p \in Procs |-> "off"]
      /\ api_log = [on |-> FALSE, calls |-> <<>>]

StarveNext ==
  \/ Tick
  \/ Start
  \/ RefillEnter
  \/ RefillBody
  \/ \E p \in Procs : ExecuteNextEnter(p)
  \/ \E p \in Procs : ExecuteNextSelect(p)
  \/ \E p \in Procs : TaskReturn(p)
  \/ \E p \in Procs : ReleaseSuccess(p)

StarveSpec == StarveInit /\ [][StarveNext]_vars

(* ---- scenario S1 (demo_basic_scheduling): zero-cost tasks of the four   *)
(* priorities, submitted in any order at one clock value                   *)
PrioCalls == 4
AllPriorities == {CRITICAL, HIGH, NORMAL, LOW}
ZeroCost == TaskCost(0, 0, 0)

PrioSchedule ==
  /\ nsched < PrioCalls
  /\ \E priority \in AllPriorities : ScheduleEnter(priority, ZeroCost, FALSE)

PrioNext ==
  \/ PrioSchedule
  \/ ScheduleBody
  \/ \E p \in Procs : ExecuteNextEnter(p)
  \/ \E p \in Procs : ExecuteNextSelect(p)
  \/ \E p \in Procs : TaskReturn(p)
  \/ \E p \in Procs : ReleaseSuccess(p)

PrioSpec == Init /\ [][PrioNext]_vars

(* ---- a scheduler left idle before it is started: the dispatches are      *)
(* recorded, time passes up to MaxRateTicks ticks, start() may come at any  *)
(* of them                                                                  *)
MaxRateTicks == 4
MaxRateCalls == 3
RateCost == TaskCost(3, 1, 10)

RateInit ==
  \E b \in BudgetArgs :
    /\ ctor = [budget |-> b, raised |-> "-"]
    /\ budget = b
    /\ queue = <<>>
    /\ lock = Free
    /\ current_usage = [api_calls |-> 0, compute_units |-> 0, memory_mb |-> 0]
    /\ api_tokens = b.api_calls_per_minute * TokenScale
    /\ now = 0
    /\ last_refill = 0
    /\ metrics = SchedulerMetrics
    /\ refill_task = "None"
    /\ pc = [p \in Procs |-> "idle"]
    /\ cur = [p \in Procs |-> NoTask]
    /\ ret = [p \in Procs |-> "-"]
    /\ sched_pc = "idle"
    /\ sched_task = NoTask
    /\ sched_reject = FALSE
    /\ sched_ret = "-"
    /\ nsched = 0
    /\ unrecorded = 0
    /\ refillers = 0
    /\ stop_ret = "-"
    /\ all_pc = [p \in Procs |-> "off"]
    /\ api_log = [on |-> TRUE, calls |-> <<>>]

RateTick ==
  /\ now < MaxRateTicks * TickSeconds
  /\ now' = now + TickSeconds
  /\ refill_task' = IF refill_task = "sleep" THEN "wake" ELSE refill_task
  /\ UNCHANGED <<ctor, budget, queue, lock, api_tokens, last_refill, current_usage,
                 metrics, pc, cur, ret, sched_pc, sched_task, sched_reject,
                 sched_ret, nsched, unrecorded, refillers, stop_ret, all_pc,
                 api_log>>

RateSchedule ==
  /\ nsched < MaxRateCalls
  /\ ScheduleEnter(HIGH, RateCost, FALSE)

RateNext ==
  \/ RateTick
  \/ Start
  \/ RefillEnter
  \/ RefillBody
  \/ RateSchedule
  \/ ScheduleBody
  \/ ExecuteNextEnter("exec1")
  \/ ExecuteNextSelect("exec1")
  \/ TaskReturn("exec1")
  \/ ReleaseSuccess("exec1")

RateSpec == RateInit /\ [][RateNext]_vars

(* ---- equal scores: submissions with the default priority and cost ---- *)
MaxTie == 5
DefaultPriority == NORMAL
DefaultCost == TaskCost(0, 1, 10)

(* ---- callers that drain the queue with execute_all ---- *)
ExecuteAllBegin(p) ==
  /\ all_pc[p] = "off"
  /\ pc[p] = "idle"
  /\ all_pc' = [all_pc EXCEPT ![p] = "running"]
  /\ UNCHANGED <<ctor, budget, queue, lock, api_tokens, last_refill, current_usage,
                 metrics, refill_task, now, pc, cur, ret, sched_pc, sched_task,
                 sched_reject, sched_ret, nsched, unrecorded, refillers,
                 stop_ret, api_log>>

ExecuteAllNext(p) ==
  /\ all_pc[p] = "running"
  /\ ExecuteNextEnter(p)

AllNext ==
  \/ Schedule
  \/ ScheduleBody
  \/ \E p \in Procs : ExecuteAllBegin(p)
  \/ \E p \in Procs : ExecuteAllNext(p)
  \/ \E p \in Procs : ExecuteNextSelect(p)
  \/ \E p \in Procs : TaskReturn(p)
  \/ \E p \in Procs : ReleaseSuccess(p)
  \/ \E p \in Procs : TaskRaise(p)
  \/ \E p \in Procs : ReleaseFailure(p)

AllSpec == Init /\ [][AllNext]_vars

TieSchedule ==
  /\ nsched < MaxTie
  /\ ScheduleEnter(DefaultPriority, DefaultCost, FALSE)

TieNext ==
  \/ TieSchedule
  \/ ScheduleBody
  \/ \E p \in Procs : ExecuteNextEnter(p)
  \/ \E p \in Procs : ExecuteNextSelect(p)
  \/ \E p \in Procs : TaskReturn(p)
  \/ \E p \in Procs : ReleaseSuccess(p)

TieSpec == Init /\ [][TieNext]_vars

(* ---- derived observations ---- *)
InFlight == {p \in Procs : pc[p] \in {"running", "completed", "failed"}}

RECURSIVE SumCompute(_)
SumCompute(S) ==
  IF S = {} THEN 0
  ELSE LET p == CHOOSE x \in S : TRUE
       IN cur[p].cost.compute_units + SumCompute(S \ {p})

RECURSIVE SumMemory(_)
SumMemory(S) ==
  IF S = {} THEN 0
  ELSE LET p == CHOOSE x \in S : TRUE
       IN cur[p].cost.memory_mb + SumMemory(S \ {p})

TypeOK ==
  /\ lock \in Procs \cup {Free, SchedId, RefillId}
  /\ api_tokens \in Int
  /\ now \in Nat
  /\ refill_task \in {"None", "sleep", "wake", "cs", "cancelled", "failed"}
  /\ refillers \in Nat
  /\ stop_ret \in {"-", "None", "Exception"}
  /\ all_pc \in [Procs -> {"off", "running", "returned", "raised"}]
  /\ api_log.on \in BOOLEAN
  /\ pc \in [Procs -> {"idle", "select", "running", "completed", "failed"}]

Capacity == budget.api_calls_per_minute * TokenScale

(* ======================= the claims ======================= *)

(* C1: in every reachable state, whatever the interleaving of schedule      *)
(* calls, concurrent execute_next calls and refiller ticks, the reserved    *)
(* compute and memory do not exceed the budget.                             *)
C1_UsageWithinBudget ==
  /\ current_usage.compute_units <= budget.compute_units
  /\ current_usage.memory_mb <= budget.memory_mb

(* the case of C1: one task holds 30 MB, a second 30 MB task has been       *)
(* inspected by a concurrent execute_next and left in the queue             *)
C1_Witness ==
  /\ \E p \in Procs : pc[p] = "running" /\ cur[p].cost.memory_mb = 30
  /\ \E i \in 1..Len(queue) : queue[i].cost.memory_mb = 30
  /\ metrics.tasks_deferred >= 1

(* C2: the token count stays within [0, budget.api_calls_per_minute]        *)
(* (here in sixtieths of a token) in every reachable state.                 *)
C2_TokensInRange ==
  /\ api_tokens >= 0
  /\ api_tokens <= budget.api_calls_per_minute * TokenScale

(* the case of C2: tokens were consumed by a dispatch and a later refill    *)
(* has restored part of them                                                *)
C2_Witness ==
  /\ last_refill > 0
  /\ api_tokens < Capacity
  /\ api_tokens > 0
  /\ \E p \in Procs : cur[p].cost.api_calls > 0

(* C3: in every reachable state the reserved compute and memory equal the   *)
(* summed costs of the tasks dispatched and not yet finished with, so that  *)
(* both are 0 once every execute_next has returned.                         *)
C3_ReservationsReleased ==
  /\ current_usage.compute_units = SumCompute(InFlight)
  /\ current_usage.memory_mb = SumMemory(InFlight)

(* C4: when the execution of a dispatched task is cancelled inside          *)
(* execute_next, that step gives back the task's compute and memory.        *)
C4_CancelReleases ==
  [][\A p \in Procs :
       (pc[p] = "running" /\ ret'[p] = "CancelledError") =>
          /\ current_usage'.compute_units =
               current_usage.compute_units - cur[p].cost.compute_units
          /\ current_usage'.memory_mb =
               current_usage.memory_mb - cur[p].cost.memory_mb]_vars

(* C5 as stated: tasks_queued - (queue_size + tasks_executed +              *)
(* tasks_rejected + tasks_currently_executing) = 0 in every state.          *)
C5_Conservation ==
  metrics.tasks_queued
    - (Len(queue) + metrics.tasks_executed + metrics.tasks_rejected
         + Cardinality(InFlight)) = 0

(* C5 amended: rejected submissions are not counted in tasks_queued, and a  *)
(* dispatched task whose execution ended without being recorded (callable   *)
(* raised, execution cancelled) stays counted in it:                        *)
(* tasks_queued = queue_size + tasks_executed + tasks_currently_executing   *)
(* + ended-unrecorded, and tasks_queued + tasks_rejected is the number of   *)
(* schedule calls that have completed.                                      *)
C5_ConservationAmended ==
  /\ metrics.tasks_queued =
       Len(queue) + metrics.tasks_executed + Cardinality(InFlight) + unrecorded
  /\ metrics.tasks_queued + metrics.tasks_rejected =
       nsched - (IF sched_pc = "cs" THEN 1 ELSE 0)

C5_Witness ==
  /\ metrics.tasks_rejected >= 1
  /\ unrecorded >= 1
  /\ metrics.tasks_queued >= 1

(* C7: a schedule call raises BudgetExhaustedError if and only if           *)
(* reject_if_no_budget is set and can_afford(cost) is false while it holds  *)
(* the lock; with reject_if_no_budget false it always pushes the task and   *)
(* increments tasks_queued by 1.                                            *)
C7_RejectIff ==
  [][(sched_pc = "cs" /\ sched_pc' = "idle") =>
       /\ (sched_ret' = "BudgetExhaustedError") <=>
            (sched_reject /\ ~can_afford(api_tokens, current_usage, budget,
                                         sched_task.cost))
       /\ sched_ret' \in {"BudgetExhaustedError", "task_id"}
       /\ ~sched_reject =>
            /\ sched_ret' = "task_id"
            /\ Len(queue') = Len(queue) + 1
            /\ \E i \in 1..Len(queue') : queue'[i] = sched_task
            /\ metrics'.tasks_queued = metrics.tasks_queued + 1]_vars

(* the case of C7: a task needing 3 tokens sits in the queue, admitted      *)
(* without rejection, while fewer than 3 tokens are available and nothing   *)
(* was rejected or deferred                                                 *)
C7_Witness ==
  /\ sched_pc = "idle"
  /\ sched_ret = "task_id"
  /\ metrics.tasks_rejected = 0
  /\ metrics.tasks_deferred = 0
  /\ queue # <<>>
  /\ ~can_afford(api_tokens, current_usage, budget, queue[Len(queue)].cost)

(* C8: a rejected schedule call increments tasks_rejected by exactly 1 and  *)
(* leaves the queue, the other counters, the tokens and the usage as they   *)
(* were.                                                                    *)
C8_RejectFrame ==
  [][(sched_pc = "cs" /\ sched_ret' = "BudgetExhaustedError") =>
       /\ metrics'.tasks_rejected = metrics.tasks_rejected + 1
       /\ metrics'.tasks_queued = metrics.tasks_queued
       /\ metrics'.tasks_executed = metrics.tasks_executed
       /\ metrics'.tasks_deferred = metrics.tasks_deferred
       /\ metrics'.total_cost_spent = metrics.total_cost_spent
       /\ queue' = queue
       /\ api_tokens' = api_tokens
       /\ current_usage' = current_usage]_vars

(* the case of C8: a submission was rejected after an admitted task had    *)
(* been dispatched and had taken tokens                                     *)
C8_Witness ==
  /\ sched_pc = "idle"
  /\ sched_ret = "BudgetExhaustedError"
  /\ metrics.tasks_rejected >= 1
  /\ metrics.tasks_queued >= 1
  /\ api_tokens < Capacity

(* C10: when the callable of a dispatched task raises, the error reaches    *)
(* the caller of execute_next in the step that gives back the task's        *)
(* compute and memory; tasks_executed and total_cost_spent stay as they     *)
(* were and the tokens taken at dispatch are not given back.                *)
C10_FailureReleases ==
  [][\A p \in Procs :
       /\ (pc[p] = "running" /\ pc'[p] = "failed") =>
            /\ ret'[p] = "-"
            /\ api_tokens' = api_tokens
            /\ metrics' = metrics
       /\ (pc[p] = "failed" /\ pc'[p] # "failed") =>
            /\ ret'[p] = "Exception"
            /\ current_usage'.compute_units =
                 current_usage.compute_units - cur[p].cost.compute_units
            /\ current_usage'.memory_mb =
                 current_usage.memory_mb - cur[p].cost.memory_mb
            /\ api_tokens' = api_tokens
            /\ metrics' = metrics]_vars

(* the case of C10: a task that took 3 tokens has failed; nothing is        *)
(* reserved, nothing was recorded and the tokens are still gone             *)
C10_Witness ==
  /\ \E p \in Procs : ret[p] = "Exception"
  /\ InFlight = {}
  /\ current_usage.compute_units = 0
  /\ current_usage.memory_mb = 0
  /\ metrics.tasks_executed = 0
  /\ last_refill = 0
  /\ api_tokens = Capacity - 3 * TokenScale

(* C6, in the form a single call refutes: with nothing in flight and a full *)
(* bucket, an execute_next that dispatches nothing leaves the scheduler as  *)
(* it found it (but for tasks_deferred), so every later call does the same; *)
(* starvation-freedom therefore requires that such a call leaves no task    *)
(* queued that is affordable under the full budget.                         *)
IndividuallyAffordable(cost) ==
  /\ cost.api_calls <= budget.api_calls_per_minute
  /\ cost.compute_units <= budget.compute_units
  /\ cost.memory_mb <= budget.memory_mb

C6_NoStarvation ==
  [][\A p \in Procs :
       (/\ pc[p] = "select" /\ pc'[p] = "idle"
        /\ InFlight = {}
        /\ current_usage.compute_units = 0 /\ current_usage.memory_mb = 0
        /\ api_tokens = Capacity) =>
          ~\E i \in 1..Len(queue') : IndividuallyAffordable(queue'[i].cost)]_vars

(* C9 as stated: once the three submissions of scenario S2 have been made,  *)
(* tasks_rejected = 2 and tasks_queued = 1.                                 *)
C9_S2Rejections ==
  (nsched = S2Calls /\ sched_pc = "idle") =>
     (metrics.tasks_rejected = 2 /\ metrics.tasks_queued = 1)

(* C9 amended: in scenario S2 the first submission is always admitted; a    *)
(* later one is rejected exactly when fewer than 3 tokens are available as  *)
(* it holds the lock, which happens only after an admitted task has been    *)
(* dispatched; so submissions with no dispatch before them are all          *)
(* admitted, and tasks_rejected = 2 comes with tasks_queued = 1 and the     *)
(* one admitted task dispatched.                                            *)
C9_S2Amended ==
  /\ [][(sched_pc = "cs" /\ sched_pc' = "idle") =>
          /\ (sched_ret' = "BudgetExhaustedError") <=>
               (api_tokens < S2Cost.api_calls * TokenScale)
          /\ (metrics.tasks_queued = 0 /\ metrics.tasks_rejected = 0) =>
               sched_ret' = "task_id"]_vars
  /\ [](api_tokens < S2Cost.api_calls * TokenScale =>
          metrics.tasks_queued > Len(queue))
  /\ []((nsched = S2Calls /\ sched_pc = "idle") =>
          /\ metrics.tasks_queued + metrics.tasks_rejected = S2Calls
          /\ metrics.tasks_queued >= 1
          /\ (metrics.tasks_queued = Len(queue)) => metrics.tasks_rejected = 0
          /\ (metrics.tasks_rejected = 2) =>
               (metrics.tasks_queued = 1 /\ queue = <<>>))

(* the case of C9: the first task was dispatched (tokens 5 -> 2) and the    *)
(* two later submissions were rejected                                      *)
C9_Witness ==
  /\ nsched = S2Calls
  /\ sched_pc = "idle"
  /\ metrics.tasks_rejected = 2
  /\ metrics.tasks_queued = 1
  /\ api_tokens = 2 * TokenScale

(* C11: with zero-cost tasks whose scores were all computed at one clock    *)
(* value, every dispatch takes a task at least as urgent as every task it   *)
(* leaves in the queue, so consecutive execute_next calls dispatch          *)
(* CRITICAL, HIGH, NORMAL, LOW in that order whatever the submission order. *)
C11_PriorityOrder ==
  [][\A p \in Procs :
       (pc[p] = "select" /\ pc'[p] = "running") =>
          \A i \in 1..Len(queue') : cur'[p].priority <= queue'[i].priority]_vars

(* the case of C11: all four tasks were submitted, the CRITICAL one is      *)
(* dispatched and the three less urgent ones are still queued               *)
C11_Witness ==
  /\ nsched = PrioCalls
  /\ \E p \in Procs : pc[p] = "running" /\ cur[p].priority = CRITICAL
  /\ Len(queue) = 3
  /\ {queue[i].priority : i \in 1..Len(queue)} = {HIGH, NORMAL, LOW}

(* C12: any two tasks created by schedule on one scheduler have distinct    *)
(* task_ids (stated over the tasks that are queued or dispatched).          *)
LiveTasks ==
  {<<"queue", i>> : i \in 1..Len(queue)} \cup {<<"cur", p>> : p \in InFlight}

TaskAt(h) == IF h[1] = "queue" THEN queue[h[2]] ELSE cur[h[2]]

C12_UniqueTaskIds ==
  \A g, h \in LiveTasks : g # h => TaskAt(g).task_id # TaskAt(h).task_id

(* C13: constructing a scheduler without a budget succeeds, with the        *)
(* default budget (60 api/min, 100.0 compute, 512 MB), a full bucket of 60  *)
(* tokens and all usage and counters zero.                                  *)
C13_DefaultConstruction ==
  (ctor.budget = NoBudget) =>
     /\ ctor.raised = "-"
     /\ budget = ResourceBudget(60, 100, 512)
     /\ api_tokens = 60 * TokenScale
     /\ current_usage.compute_units = 0
     /\ current_usage.memory_mb = 0
     /\ metrics = SchedulerMetrics

(* C14: an execute_next that finds none of the (up to five) lowest-score    *)
(* tasks affordable returns None, adds min(5, queue size) to                *)
(* tasks_deferred and leaves the queued tasks (as a collection), the        *)
(* tokens, the usage and the other counters as they were; and a call that   *)
(* finds no queued task affordable at all is such a call.                   *)
Occurrences(q, t) == Cardinality({i \in 1..Len(q) : q[i] = t})

SameTasks(q1, q2) ==
  /\ Len(q1) = Len(q2)
  /\ \A i \in 1..Len(q1) : Occurrences(q1, q1[i]) = Occurrences(q2, q1[i])

C14_DeferralFrame ==
  [][\A p \in Procs :
       /\ (pc[p] = "select" /\ pc'[p] = "idle" /\ queue # <<>>) =>
            /\ ret'[p] = "None"
            /\ metrics'.tasks_deferred = metrics.tasks_deferred
                 + (IF Len(queue) < 5 THEN Len(queue) ELSE 5)
            /\ SameTasks(queue, queue')
            /\ api_tokens' = api_tokens
            /\ current_usage' = current_usage
            /\ metrics'.tasks_queued = metrics.tasks_queued
            /\ metrics'.tasks_executed = metrics.tasks_executed
            /\ metrics'.tasks_rejected = metrics.tasks_rejected
            /\ metrics'.total_cost_spent = metrics.total_cost_spent
       /\ (/\ pc[p] = "select" /\ pc'[p] # "select" /\ queue # <<>>
           /\ \A i \in 1..Len(queue) :
                ~can_afford(api_tokens, current_usage, budget, queue[i].cost))
            => pc'[p] = "idle"]_vars

(* the case of C14: six tasks are queued, a call has inspected five of      *)
(* them, found none affordable and returned None                            *)
C14_Witness ==
  /\ Len(queue) = 6
  /\ metrics.tasks_deferred = 5
  /\ \E p \in Procs : pc[p] = "idle" /\ ret[p] = "None"

(* C15 as stated: among queued tasks of equal score, every dispatch takes   *)
(* the one whose schedule call acquired the lock first.                     *)
C15_TieOrder ==
  [][\A p \in Procs :
       (pc[p] = "select" /\ pc'[p] = "running") =>
          \A i \in 1..Len(queue') :
             queue'[i].score = cur'[p].score => cur'[p].seq < queue'[i].seq]_vars

(* C15 amended: equal-score tasks are dispatched in lock-acquisition order  *)
(* as long as no dispatch is made from a queue holding more than three of   *)
(* them: a dispatch from a heap array that is in submission order takes the *)
(* earliest task, and every push, and every pop from a queue of at most     *)
(* three, leaves the array in submission order.                             *)
InSubmissionOrder(q) ==
  \A i, j \in 1..Len(q) : i < j => q[i].seq < q[j].seq

C15_TieOrderAmended ==
  [][/\ \A p \in Procs :
          (pc[p] = "select" /\ pc'[p] = "running" /\ InSubmissionOrder(queue))
             => \A i \in 1..Len(queue') : cur'[p].seq < queue'[i].seq
     /\ (InSubmissionOrder(queue)
           /\ (Len(queue) <= 3 \/ Len(queue') > Len(queue)))
             => InSubmissionOrder(queue')]_vars

(* the case of C15: pushes and pops have alternated, the second task is     *)
(* dispatched while the third and fourth wait in submission order           *)
C15_Witness ==
  /\ \E p \in Procs : pc[p] = "running" /\ cur[p].seq = 2
  /\ Len(queue) = 2
  /\ queue[1].seq = 3
  /\ queue[2].seq = 4
  /\ metrics.tasks_executed = 1

(* C16: while an execute_next is suspended inside its task callable it does *)
(* not hold the scheduler lock, and whoever holds the lock then (a schedule *)
(* call, the refiller, another execute_next) is inside a block that awaits  *)
(* nothing, so it completes without waiting for the callable.               *)
C16_LockNotHeldAcrossCallable ==
  \A p \in Procs :
     pc[p] = "running" =>
        /\ lock # p
        /\ \/ lock = Free
           \/ lock = SchedId /\ sched_pc = "cs"
           \/ lock = RefillId /\ refill_task = "cs"
           \/ \E q \in Procs \ {p} :
                 lock = q /\ pc[q] \in {"select", "completed", "failed"}

(* the case of C16: while an executor is inside its callable a schedule     *)
(* call holds the lock, which it can only have taken after the dispatch     *)
(* released it                                                              *)
C16_Witness ==
  /\ pc["exec1"] = "running"
  /\ lock = SchedId
  /\ sched_pc = "cs"

(* C17: a stop() that finds the refiller in its sleep or waiting for the    *)
(* lock ends it and returns without raising; from then on no refiller is    *)
(* alive, the refiller does not hold the lock, and no step adds tokens or   *)
(* moves the refill timestamp.                                              *)
C17_RefillerShutdown ==
  [][/\ (refill_task \in {"sleep", "wake"}
           /\ refill_task' \notin {"sleep", "wake", "cs"})
          => /\ refill_task' = "cancelled"
             /\ stop_ret' = "None"
     /\ refill_task = "cancelled"
          => /\ refillers = 0
             /\ lock # RefillId
             /\ refill_task' = "cancelled"
             /\ api_tokens' <= api_tokens
             /\ last_refill' = last_refill]_vars

(* the case of C17: the refiller had refilled once and was stopped while    *)
(* tokens were still missing; another caller holds the lock                 *)
C17_Witness ==
  /\ refill_task = "cancelled"
  /\ stop_ret = "None"
  /\ last_refill > 0
  /\ api_tokens < Capacity
  /\ lock # Free

(* C18: an error raised inside one iteration of the refiller's loop is      *)
(* contained: every step out of the refiller's locked block, an iteration   *)
(* that ends in an error included, leaves the refiller alive and back in    *)
(* its sleep, from which the next tick refills again.                       *)
C18_FaultContained ==
  [][(refill_task = "cs" /\ refill_task' # "cs")
        => (refill_task' = "sleep" /\ refillers' = 1)]_vars

(* C19: whatever the sequence of start() and stop() calls, at most one      *)
(* refiller is alive at any time, and it is the one self._refill_task       *)
(* refers to; a start() on a scheduler that has a refill task creates none. *)
C19_AtMostOneRefiller ==
  /\ refillers <= 1
  /\ refillers = 1 <=> refill_task \in {"sleep", "wake", "cs"}

(* the case of C19: start() and stop() have both been called, the refiller  *)
(* refilled in between, and any further start() finds _refill_task set      *)
C19_Witness ==
  /\ refill_task = "cancelled"
  /\ refillers = 0
  /\ last_refill > 0
  /\ lock = Free
  /\ \A p \in Procs : pc[p] = "idle"

(* C20: a step that is not a dispatch (a schedule call, an execute_next     *)
(* that returns without a task or releases one, a refiller tick, start,     *)
(* stop, the passing of time) never lowers api_tokens; the clock of the     *)
(* model does not go back, so every elapsed time is non-negative.           *)
C20_MonotonicTokens ==
  [][(~ \E p \in Procs : pc[p] = "select" /\ pc'[p] = "running")
        => api_tokens' >= api_tokens]_vars

(* the case of C20: after a dispatch that took 3 tokens, an execute_next    *)
(* deferred a task without dispatching and a refill has added tokens        *)
C20_Witness ==
  /\ metrics.tasks_deferred >= 1
  /\ last_refill > 0
  /\ api_tokens > Capacity - 3 * TokenScale
  /\ api_tokens < Capacity
  /\ refill_task = "sleep"

(* C21: the locked block of execute_next dispatches the lowest-score queued *)
(* task that the budget can afford at that moment, and ends without a       *)
(* dispatch only if the queue is empty or holds no affordable task.         *)
C21_ExecutesBestAffordable ==
  [][\A p \in Procs :
       (pc[p] = "select" /\ pc'[p] # "select") =>
          IF \E i \in 1..Len(queue) :
                can_afford(api_tokens, current_usage, budget, queue[i].cost)
          THEN /\ pc'[p] = "running"
               /\ \E i \in 1..Len(queue) : queue[i] = cur'[p]
               /\ can_afford(api_tokens, current_usage, budget, cur'[p].cost)
               /\ \A i \in 1..Len(queue) :
                     can_afford(api_tokens, current_usage, budget, queue[i].cost)
                        => cur'[p].score <= queue[i].score
          ELSE /\ pc'[p] = "idle"
               /\ ret'[p] = "None"]_vars

(* C22: whenever execute_all returns normally, whatever its callables       *)
(* return, the execute_next it made last dispatched nothing (it ended in    *)
(* its first locked block), and the queue it leaves is empty or holds no    *)
(* task that the budget affords.                                            *)
C22_ExecuteAllDrains ==
  [][\A p \in Procs :
       (all_pc[p] = "running" /\ all_pc'[p] = "returned") =>
          /\ pc[p] = "select"
          /\ \A i \in 1..Len(queue') :
                ~can_afford(api_tokens', current_usage', budget, queue'[i].cost)]_vars

RECURSIVE SumCalls(_, _, _)
SumCalls(calls, i, j) ==
  IF i > j THEN 0 ELSE calls[i].api_calls + SumCalls(calls, i + 1, j)

(* C23: over any interval of time, here from one recorded dispatch to a     *)
(* later one, the api_calls taken by the dispatches in it are at most the   *)
(* bucket's capacity plus what the fill rate yields over the interval       *)
(* (both sides in sixtieths of a token).                                    *)
C23_RateLimitBound ==
  \A i, j \in 1..Len(api_log.calls) :
     i <= j =>
        SumCalls(api_log.calls, i, j) * TokenScale
           <= Capacity + budget.api_calls_per_minute
                            * (api_log.calls[j].at - api_log.calls[i].at)

====
